---- MODULE Spec2Model ----
(***************************************************************************)
(* Route prefetching of client/src/hooks/usePrefetchRoutes.ts.             *)
(*                                                                         *)
(* The module-level Loaded Set (prefetchedRoutes), the Route Table          *)
(* (routeComponentMap), the per-hook ref previousAuthState, the effect of   *)
(* usePrefetchRoutes, the effect of usePrefetchFromReturnUrl, and the host  *)
(* event loop that runs what they schedule: setTimeout timers, idle         *)
(* callbacks and the settlement of the loaders' promises.                   *)
(*                                                                         *)
(* Strings that the code inspects character by character (returnUrl,       *)
(* location) are sequences of one-character strings; route names are        *)
(* strings, and Join is the template literal that builds one from           *)
(* characters.                                                              *)
(***************************************************************************)
EXTENDS Integers, Sequences, FiniteSets, TLC

\* ------------------------------------------------------------------ bounds
\* Runs of the two hooks' effects in one behaviour.
MaxEffects == 2
\* Loader rejections and connection changes in one behaviour.
MaxFaults == 1
\* Loads in flight above which the event loop only settles loads.
MaxInFlight == 1
\* Idle callbacks pending above which no further timer fires.
MaxIdle == 0
\* Pieces a returnUrl is concatenated from.
MaxUrlParts == 3

VARIABLES
    prefetchedRoutes,   \* the Loaded Set
    previousAuthState,  \* useRef<boolean | null>: << >> is null, <<b>> is b
    store,              \* what the last render read: auth store, location
    connection,         \* navigator.connection: << >> absent, <<c>> present
    timers,             \* pending setTimeout callbacks of prefetchWithDelay
    idleCallbacks,      \* pending idle callbacks, in posting order
    inFlight,           \* loader promises not yet settled, per route
    loaderInvocations,  \* how often each route's loader was invoked
    failures,           \* loader promises rejected so far
    evals,              \* evaluations of the effect so far
    netChanges,         \* changes of the connection so far
    mounts,             \* mounts of usePrefetchFromReturnUrl so far
    last                \* the last step: what ran, and its prefetchRoute calls

vars == <<prefetchedRoutes, previousAuthState, store, connection,
          timers, idleCallbacks, inFlight, loaderInvocations, failures, evals,
          netChanges, mounts, last>>

\* ------------------------------------------------------------ strings
RECURSIVE Join(_)
\* The string a sequence of characters spells.
Join(cs) == IF cs = << >> THEN "" ELSE Head(cs) \o Join(Tail(cs))

\* String.prototype.startsWith
StartsWith(s, prefix) ==
    /\ Len(s) >= Len(prefix)
    /\ SubSeq(s, 1, Len(prefix)) = prefix

RECURSIVE IndexOf(_, _, _)
\* The first position >= from of character c in s, or 0.
IndexOf(s, c, from) ==
    IF from > Len(s) THEN 0
    ELSE IF s[from] = c THEN from
    ELSE IndexOf(s, c, from + 1)

RECURSIVE Split(_, _)
\* String.prototype.split on a one-character separator: the pieces between
\* the separators, empty ones kept.
Split(s, sep) ==
    LET i == IndexOf(s, sep, 1) IN
    IF i = 0 THEN <<s>>
    ELSE <<SubSeq(s, 1, i - 1)>> \o Split(SubSeq(s, i + 1, Len(s)), sep)

cAdmin == <<"/", "a", "d", "m", "i", "n">>
cCart == <<"/", "c", "a", "r", "t">>
cWishlist == <<"/", "w", "i", "s", "h", "l", "i", "s", "t">>
cProfile == <<"/", "p", "r", "o", "f", "i", "l", "e">>
cCheckout == <<"/", "c", "h", "e", "c", "k", "o", "u", "t">>
cUsers == <<"/", "u", "s", "e", "r", "s">>
cUnknown == <<"/", "u", "n", "k", "n", "o", "w", "n">>
cPath == <<"/", "p", "a", "t", "h">>
cQuery == <<"?", "x", "=", "1">>
cFragment == <<"#", "f">>

\* ------------------------------------------------------------ route table
routeComponentMap ==
    { "/", "/catalog", "/products", "/cart", "/wishlist", "/profile",
      "/checkout", "/login", "/register", "/verify-email", "/privacy-policy",
      "/admin", "/admin/users", "/admin/products", "/admin/categories",
      "/admin/promocodes", "/admin/orders", "/admin/support" }

adminRoutes ==
    << "/admin", "/admin/products", "/admin/categories", "/admin/orders",
       "/admin/promocodes", "/admin/users", "/admin/support" >>

staffRoles == {"admin", "marketer", "consultant"}

\* ------------------------------------------------------------ environment
\* navigator.connection as the Network Information API reports it.
ConnectionStates ==
    { << >>,
      <<[saveData |-> FALSE, effectiveType |-> "4g"]>>,
      <<[saveData |-> TRUE, effectiveType |-> "4g"]>>,
      <<[saveData |-> FALSE, effectiveType |-> "2g"]>> }

\* user of the auth store: << >> is undefined; roles << >> is an absent
\* roles field, <<rs>> the role list rs.
Users ==
    { << >>,
      <<[roles |-> << >>]>>,
      <<[roles |-> << <<"customer">> >>]>>,
      <<[roles |-> << <<"customer", "marketer">> >>]>> }

Locations == { <<"/">>, cAdmin \o <<"/", "u">> }

\* params.get('returnUrl') of the page a mount finds: no parameter, /cart,
\* /admin/users?x=1, /admin/x (no such route) and /unknown/path.
ReturnUrlParams ==
    { << >>, <<cCart>>, <<cAdmin \o cUsers \o cQuery>>,
      <<cAdmin \o <<"/", "x">> >>, <<cUnknown \o cPath>> }

\* The pieces the returnUrl values of SpecUrl are made of.
UrlPieces ==
    { <<"/">>, <<"x">>, cAdmin, cUsers, cCart, cWishlist, cProfile, cCheckout,
      cUnknown, cPath, cQuery, cFragment }

RECURSIVE UrlsOfParts(_)
\* The strings made of at most n pieces.
UrlsOfParts(n) ==
    IF n = 0 THEN {<< >>}
    ELSE LET shorter == UrlsOfParts(n - 1)
         IN  shorter \cup {u \o piece : u \in shorter, piece \in UrlPieces}

\* params.get('returnUrl') in SpecUrl: null, or a string of those pieces.
UrlParams == {<< >>} \cup {<<u>> : u \in UrlsOfParts(MaxUrlParts)}

Stores ==
    [authInitialized : BOOLEAN, isAuthenticated : BOOLEAN,
     user : Users, location : Locations]

\* An effect runs in a browser, where navigator is defined.
navigatorDefined == TRUE

\* shouldPrefetch without the data-saver test.
shouldPrefetchIgnoringSaveData ==
    IF ~navigatorDefined THEN FALSE
    ELSE IF connection # << >>
            /\ connection[1].effectiveType \in {"slow-2g", "2g"} THEN FALSE
    ELSE TRUE

shouldPrefetch ==
    IF ~navigatorDefined THEN FALSE
    ELSE IF connection # << >> /\ connection[1].saveData THEN FALSE
    ELSE IF connection # << >>
            /\ connection[1].effectiveType \in {"slow-2g", "2g"} THEN FALSE
    ELSE TRUE

\* hasStaffRole that takes any role for a staff role.
hasStaffRoleForAnyRole(user) ==
    /\ user # << >>
    /\ user[1].roles # << >>
    /\ Len(user[1].roles[1]) > 0

\* user?.roles?.some(role => [...].includes(role)), as a truth value.
hasStaffRole(user) ==
    /\ user # << >>
    /\ user[1].roles # << >>
    /\ \E i \in 1..Len(user[1].roles[1]) : user[1].roles[1][i] \in staffRoles

isOnAdminPage(location) == StartsWith(location, cAdmin)

\* ------------------------------------------------------------ prefetchRoute
\* prefetchRoute without the test for a missing loader.
prefetchRouteNoLoaderCheck(route) ==
    IF route \in prefetchedRoutes THEN "return" ELSE "load"

\* prefetchRoute without the test of the Loaded Set.
prefetchRouteNoDedup(route) ==
    IF route \notin routeComponentMap THEN "warn" ELSE "load"

\* What one call prefetchRoute(route) does: "return" (already in the Loaded
\* Set), "warn" (no loader: console.warn) or "load" (the loader is invoked).
prefetchRoute(route) ==
    IF route \in prefetchedRoutes THEN "return"
    ELSE IF route \notin routeComponentMap THEN "warn"
    ELSE "load"

\* How many of the calls prefetchRoute(routes[1]), ... invoke the loader of r.
\* The Loaded Set changes only when a promise settles, in a later task, so
\* every call of one callback sees the same Loaded Set.
Loads(routes, r) ==
    Cardinality({i \in 1..Len(routes) :
                    routes[i] = r /\ prefetchRoute(routes[i]) = "load"})

\* The record of a step: what ran ("evaluate", "mount", "timer", "idle" or
\* "other"), on what, and the prefetchRoute calls it made with their outcomes.
Step(what, arg, routes) ==
    [what |-> what, arg |-> arg,
     calls |-> [i \in 1..Len(routes) |->
                   [route |-> routes[i], outcome |-> prefetchRoute(routes[i])]]]

\* The idle callback cb calling prefetchRoute on each of routes, in order.
Request(cb, routes) ==
    /\ last' = Step("idle", cb, routes)
    /\ inFlight' = [r \in routeComponentMap |-> inFlight[r] + Loads(routes, r)]
    /\ loaderInvocations' =
           [r \in routeComponentMap |-> loaderInvocations[r] + Loads(routes, r)]

\* ------------------------------------------------------------ scheduling
\* The timer prefetchWithDelay(routes, delay) sets.
prefetchWithDelay(routes, delay) == [routes |-> routes, delay |-> delay]

\* The idle callback safeRequestIdleCallback posts; timeout 0 is no timeout
\* option. Without requestIdleCallback it is setTimeout(callback, 1), whose
\* callbacks run in posting order: one of the orders IdleMayRun allows.
safeRequestIdleCallback(kind, route, staff, returnUrl, timeout) ==
    [kind |-> kind, route |-> route, hasStaffRole |-> staff,
     returnUrl |-> returnUrl, timeout |-> timeout]

\* TimerMayFire under which only the timers of delay 0 ever fire.
TimerMayFireIfImmediate(i) == timers[i].delay = 0

\* A timer set later fires after one set earlier with a delay no longer.
TimerMayFire(i) == \A j \in 1..(i - 1) : timers[j].delay > timers[i].delay

\* Idle callbacks run in posting order, except that one whose timeout ends
\* first may run first: a callback posted later ends first only if its
\* timeout is shorter.
IdleMayRun(i) ==
    \A j \in 1..(i - 1) :
        /\ idleCallbacks[i].timeout # 0
        /\ \/ idleCallbacks[j].timeout = 0
           \/ idleCallbacks[i].timeout < idleCallbacks[j].timeout

Remove(seq, i) == SubSeq(seq, 1, i - 1) \o SubSeq(seq, i + 1, Len(seq))

InFlightCount == Cardinality({r \in routeComponentMap : inFlight[r] > 0})

\* The event loop takes up new work (an evaluation, a timer) only with at
\* most MaxIdle idle callbacks pending, and runs a callback only with loads
\* of at most MaxInFlight routes in flight.
MayStartWork == Len(idleCallbacks) <= MaxIdle /\ InFlightCount <= MaxInFlight
MayRunCallback == InFlightCount <= MaxInFlight

\* ------------------------------------------------------------ usePrefetchRoutes
\* Waves that sets the 7000ms admin wave for every authenticated user.
WavesWithoutStaffTest(isAuth, staff) ==
    IF ~isAuth
    THEN << prefetchWithDelay(<<"/login", "/register">>, 0),
            prefetchWithDelay(<<"/catalog", "/products">>, 1000),
            prefetchWithDelay(<<"/privacy-policy">>, 5000) >>
    ELSE << prefetchWithDelay(<<"/catalog", "/cart", "/wishlist",
                                "/products">>, 0),
            prefetchWithDelay(<<"/profile", "/checkout">>, 3000),
            prefetchWithDelay(<<"/privacy-policy">>, 5000),
            prefetchWithDelay(adminRoutes, 7000) >>

\* The staged waves of one evaluation.
Waves(isAuth, staff) ==
    IF ~isAuth
    THEN << prefetchWithDelay(<<"/login", "/register">>, 0),
            prefetchWithDelay(<<"/catalog", "/products">>, 1000),
            prefetchWithDelay(<<"/privacy-policy">>, 5000) >>
    ELSE << prefetchWithDelay(<<"/catalog", "/cart", "/wishlist", "/products">>, 0),
            prefetchWithDelay(<<"/profile", "/checkout">>, 3000),
            prefetchWithDelay(<<"/privacy-policy">>, 5000) >>
         \o (IF staff THEN <<prefetchWithDelay(adminRoutes, 7000)>> ELSE << >>)

\* LoginBurst that takes an unset previousAuthState for false.
LoginBurstWhenUnset(isAuth, staff) ==
    IF previousAuthState # <<TRUE>> /\ isAuth
    THEN <<safeRequestIdleCallback("login", "", staff, << >>, 0)>>
    ELSE << >>

\* LoginBurst with the staff flag lost.
LoginBurstWithoutStaff(isAuth, staff) ==
    IF previousAuthState = <<FALSE>> /\ isAuth
    THEN <<safeRequestIdleCallback("login", "", FALSE, << >>, 0)>>
    ELSE << >>

\* The login-transition burst, if this evaluation posts it.
LoginBurst(isAuth, staff) ==
    IF previousAuthState = <<FALSE>> /\ isAuth
    THEN <<safeRequestIdleCallback("login", "", staff, << >>, 0)>>
    ELSE << >>

\* AdminBurst without the test of the Loaded Set.
AdminBurstIgnoringLoadedSet(location, staff) ==
    IF isOnAdminPage(location) /\ staff
    THEN <<safeRequestIdleCallback("admin", "", staff, << >>, 0)>>
    ELSE << >>

\* The admin-page burst, if this evaluation posts it.
AdminBurst(location, staff) ==
    IF isOnAdminPage(location) /\ staff /\ "/admin" \notin prefetchedRoutes
    THEN <<safeRequestIdleCallback("admin", "", staff, << >>, 0)>>
    ELSE << >>

\* EvaluationGated without the test of authInitialized.
EvaluationGatedByNetworkOnly(s) == ~shouldPrefetch

\* Whether the effect returns at its first line.
EvaluationGated(s) == ~s.authInitialized \/ ~shouldPrefetch

\* Whether a render that reads s runs the effect: on mount, and when a
\* dependency changed (user is compared by identity: a user object fetched
\* again is another object).
DependenciesChanged(s) == evals = 0 \/ s # store \/ s.user # << >>

\* The effect of usePrefetchRoutes, run after a render that read s.
Evaluate(s) ==
    /\ evals + mounts < MaxEffects
    /\ MayStartWork
    /\ DependenciesChanged(s)
    /\ evals' = evals + 1
    /\ store' = s
    /\ last' = Step("evaluate", s, << >>)
    /\ IF EvaluationGated(s)
       THEN UNCHANGED <<timers, idleCallbacks, previousAuthState>>
       ELSE /\ timers' = timers \o Waves(s.isAuthenticated, hasStaffRole(s.user))
            /\ idleCallbacks' =
                   idleCallbacks
                   \o LoginBurst(s.isAuthenticated, hasStaffRole(s.user))
                   \o AdminBurst(s.location, hasStaffRole(s.user))
            /\ previousAuthState' = <<s.isAuthenticated>>
    /\ UNCHANGED <<prefetchedRoutes, connection, inFlight, loaderInvocations,
                   failures, netChanges, mounts>>

\* TimerCallbacks without the second test of the network gate.
TimerCallbacksWithoutRecheck(timer) ==
    [k \in 1..Len(timer.routes) |->
        safeRequestIdleCallback("route", timer.routes[k], FALSE, << >>, 2000)]

\* TimerCallbacks that posts a callback for the first route of the wave only.
TimerCallbacksFirstRouteOnly(timer) ==
    IF shouldPrefetch
    THEN <<safeRequestIdleCallback("route", timer.routes[1], FALSE, << >>, 2000)>>
    ELSE << >>

\* TimerCallbacks that drops the 3000ms wave once the user has logged out.
TimerCallbacksUnlessLoggedOut(timer) ==
    IF shouldPrefetch /\ (store.isAuthenticated \/ timer.delay # 3000)
    THEN [k \in 1..Len(timer.routes) |->
             safeRequestIdleCallback("route", timer.routes[k], FALSE, << >>, 2000)]
    ELSE << >>

\* The idle callbacks the timer of prefetchWithDelay posts when it fires.
TimerCallbacks(timer) ==
    IF shouldPrefetch
    THEN [k \in 1..Len(timer.routes) |->
             safeRequestIdleCallback("route", timer.routes[k], FALSE, << >>, 2000)]
    ELSE << >>

\* The setTimeout callback of prefetchWithDelay.
FireTimer(i) ==
    /\ TimerMayFire(i)
    /\ MayStartWork
    /\ timers' = Remove(timers, i)
    /\ idleCallbacks' = idleCallbacks \o TimerCallbacks(timers[i])
    /\ last' = Step("timer", timers[i], << >>)
    /\ UNCHANGED <<prefetchedRoutes, previousAuthState, store, connection,
                   inFlight, loaderInvocations, failures, evals,
                   netChanges, mounts>>

\* The idle callback () => prefetchRoute(route) of a staged wave.
RunRouteCallback(i) ==
    /\ IdleMayRun(i)
    /\ MayRunCallback
    /\ idleCallbacks[i].kind = "route"
    /\ Request(idleCallbacks[i], <<idleCallbacks[i].route>>)
    /\ idleCallbacks' = Remove(idleCallbacks, i)
    /\ UNCHANGED <<prefetchedRoutes, previousAuthState, store, connection,
                   timers, failures, evals, netChanges, mounts>>

\* The idle callback of the login-transition burst.
RunLoginBurst(i) ==
    /\ IdleMayRun(i)
    /\ MayRunCallback
    /\ idleCallbacks[i].kind = "login"
    /\ Request(idleCallbacks[i], <<"/cart", "/wishlist", "/profile">>)
    /\ timers' = IF idleCallbacks[i].hasStaffRole
                 THEN timers \o <<prefetchWithDelay(adminRoutes, 1000)>>
                 ELSE timers
    /\ idleCallbacks' = Remove(idleCallbacks, i)
    /\ UNCHANGED <<prefetchedRoutes, previousAuthState, store, connection,
                   failures, evals, netChanges, mounts>>

\* The idle callback of the admin-page burst.
RunAdminBurst(i) ==
    /\ IdleMayRun(i)
    /\ MayRunCallback
    /\ idleCallbacks[i].kind = "admin"
    /\ Request(idleCallbacks[i], adminRoutes)
    /\ idleCallbacks' = Remove(idleCallbacks, i)
    /\ UNCHANGED <<prefetchedRoutes, previousAuthState, store, connection,
                   timers, failures, evals, netChanges, mounts>>

\* ------------------------------------------------------------ usePrefetchFromReturnUrl
\* normalizedUrl that strips the query only.
normalizedUrlKeepingFragment(returnUrl) == Split(returnUrl, "?")[1]

\* returnUrl.split('?')[0].split('#')[0]
normalizedUrl(returnUrl) == Split(Split(returnUrl, "?")[1], "#")[1]

\* The prefetchRoute calls of the idle callback, for a returnUrl.
returnUrlRoutes(returnUrl) ==
    LET n == normalizedUrl(returnUrl)
        segments == Split(n, "/")
    IN  IF StartsWith(n, cCart) THEN <<"/cart">>
        ELSE IF StartsWith(n, cWishlist) THEN <<"/wishlist">>
        ELSE IF StartsWith(n, cProfile) THEN <<"/profile">>
        ELSE IF StartsWith(n, cCheckout) THEN <<"/checkout">>
        ELSE IF StartsWith(n, cAdmin)
             THEN IF Len(segments) = 2 THEN <<"/admin">>
                  ELSE IF Len(segments) = 3
                       THEN <<"/admin/" \o Join(segments[3])>>
                       ELSE << >>
        ELSE << >>

\* ReturnUrlCallback without the network gate.
ReturnUrlCallbackUngated(param) ==
    IF param # << >> /\ param[1] # << >>
    THEN <<safeRequestIdleCallback("returnUrl", "", FALSE, param[1], 500)>>
    ELSE << >>

\* The idle callback the effect posts: param is params.get('returnUrl'),
\* << >> for null and <<u>> for the string u.
ReturnUrlCallback(param) ==
    IF shouldPrefetch /\ param # << >> /\ param[1] # << >>
    THEN <<safeRequestIdleCallback("returnUrl", "", FALSE, param[1], 500)>>
    ELSE << >>

\* The effect of usePrefetchFromReturnUrl, run once on mount.
Mount(param) ==
    /\ evals + mounts < MaxEffects
    /\ MayStartWork
    /\ mounts' = mounts + 1
    /\ idleCallbacks' = idleCallbacks \o ReturnUrlCallback(param)
    /\ last' = Step("mount", param, << >>)
    /\ UNCHANGED <<prefetchedRoutes, previousAuthState, store, connection,
                   timers, inFlight, loaderInvocations, failures,
                   evals, netChanges>>

\* The idle callback of usePrefetchFromReturnUrl.
RunReturnUrlCallback(i) ==
    /\ IdleMayRun(i)
    /\ MayRunCallback
    /\ idleCallbacks[i].kind = "returnUrl"
    /\ Request(idleCallbacks[i], returnUrlRoutes(idleCallbacks[i].returnUrl))
    /\ idleCallbacks' = Remove(idleCallbacks, i)
    /\ UNCHANGED <<prefetchedRoutes, previousAuthState, store, connection,
                   timers, failures, evals, netChanges, mounts>>

\* ------------------------------------------------------------ loaders
\* The routes whose import may reject.
RejectingRoutes == {"/catalog", "/cart", "/admin"}

\* LoaderResolve that marks every route with a load in flight.
LoaderResolveMarksInFlight(r) ==
    /\ inFlight[r] > 0
    /\ inFlight' = [inFlight EXCEPT ![r] = @ - 1]
    /\ prefetchedRoutes' =
           prefetchedRoutes \cup {x \in routeComponentMap : inFlight[x] > 0}
    /\ last' = Step("other", << >>, << >>)
    /\ UNCHANGED <<previousAuthState, store, connection, timers,
                   idleCallbacks, loaderInvocations, failures, evals,
                   netChanges, mounts>>

\* The .then of loader(): the import resolved.
LoaderResolve(r) ==
    /\ inFlight[r] > 0
    /\ inFlight' = [inFlight EXCEPT ![r] = @ - 1]
    /\ prefetchedRoutes' = prefetchedRoutes \cup {r}
    /\ last' = Step("other", << >>, << >>)
    /\ UNCHANGED <<previousAuthState, store, connection, timers,
                   idleCallbacks, loaderInvocations, failures, evals,
                   netChanges, mounts>>

\* LoaderReject that marks the route loaded all the same.
LoaderRejectMarksLoaded(r) ==
    /\ inFlight[r] > 0
    /\ r \in RejectingRoutes
    /\ failures + netChanges < MaxFaults
    /\ inFlight' = [inFlight EXCEPT ![r] = @ - 1]
    /\ failures' = failures + 1
    /\ prefetchedRoutes' = prefetchedRoutes \cup {r}
    /\ last' = Step("other", << >>, << >>)
    /\ UNCHANGED <<previousAuthState, store, connection, timers,
                   idleCallbacks, loaderInvocations, evals, netChanges, mounts>>

\* The .catch of loader(): the import rejected.
LoaderReject(r) ==
    /\ inFlight[r] > 0
    /\ r \in RejectingRoutes
    /\ failures + netChanges < MaxFaults
    /\ inFlight' = [inFlight EXCEPT ![r] = @ - 1]
    /\ failures' = failures + 1
    /\ last' = Step("other", << >>, << >>)
    /\ UNCHANGED <<prefetchedRoutes, previousAuthState, store, connection,
                   timers, idleCallbacks, loaderInvocations, evals,
                   netChanges, mounts>>

\* ------------------------------------------------------------ environment
\* The connection changes (the Network Information API's change event); a
\* browser without the API never gets one.
NetworkChange(c) ==
    /\ failures + netChanges < MaxFaults
    /\ connection # << >>
    /\ c # << >>
    /\ c # connection
    /\ connection' = c
    /\ netChanges' = netChanges + 1
    /\ last' = Step("other", << >>, << >>)
    /\ UNCHANGED <<prefetchedRoutes, previousAuthState, store, timers,
                   idleCallbacks, inFlight, loaderInvocations, failures, evals,
                   mounts>>

\* ------------------------------------------------------------ specification
Init ==
    /\ prefetchedRoutes = {}
    /\ previousAuthState = << >>
    /\ store = [authInitialized |-> FALSE, isAuthenticated |-> FALSE,
                user |-> << >>, location |-> <<"/">>]
    /\ connection \in ConnectionStates
    /\ timers = << >>
    /\ idleCallbacks = << >>
    /\ inFlight = [r \in routeComponentMap |-> 0]
    /\ loaderInvocations = [r \in routeComponentMap |-> 0]
    /\ failures = 0
    /\ evals = 0
    /\ netChanges = 0
    /\ mounts = 0
    /\ last = [what |-> "other", arg |-> << >>, calls |-> << >>]

Next ==
    \/ \E s \in Stores : Evaluate(s)
    \/ \E i \in 1..Len(timers) : FireTimer(i)
    \/ \E i \in 1..Len(idleCallbacks) : RunRouteCallback(i)
    \/ \E i \in 1..Len(idleCallbacks) : RunLoginBurst(i)
    \/ \E i \in 1..Len(idleCallbacks) : RunAdminBurst(i)
    \/ \E param \in ReturnUrlParams : Mount(param)
    \/ \E i \in 1..Len(idleCallbacks) : RunReturnUrlCallback(i)
    \/ \E r \in routeComponentMap : LoaderResolve(r)
    \/ \E r \in routeComponentMap : LoaderReject(r)
    \/ \E c \in ConnectionStates : NetworkChange(c)

Spec == Init /\ [][Next]_vars

\* usePrefetchRoutes with a connection that does not change and loaders that
\* all succeed; every timer fires, every idle callback runs and every load
\* resolves in the end.
NextLive ==
    \/ \E s \in Stores : Evaluate(s)
    \/ \E i \in 1..Len(timers) : FireTimer(i)
    \/ \E i \in 1..Len(idleCallbacks) : RunRouteCallback(i)
    \/ \E i \in 1..Len(idleCallbacks) : RunLoginBurst(i)
    \/ \E i \in 1..Len(idleCallbacks) : RunAdminBurst(i)
    \/ \E r \in routeComponentMap : LoaderResolve(r)

SpecLive ==
    /\ Init
    /\ [][NextLive]_vars
    /\ WF_vars(\E i \in 1..Len(timers) : FireTimer(i))
    /\ WF_vars(\E i \in 1..Len(idleCallbacks) : RunRouteCallback(i))
    /\ WF_vars(\E i \in 1..Len(idleCallbacks) : RunLoginBurst(i))
    /\ WF_vars(\E i \in 1..Len(idleCallbacks) : RunAdminBurst(i))
    /\ WF_vars(\E r \in routeComponentMap : LoaderResolve(r))

\* usePrefetchFromReturnUrl alone, over every returnUrl of UrlParams.
NextUrl ==
    \/ \E param \in UrlParams : Mount(param)
    \/ \E i \in 1..Len(idleCallbacks) : RunReturnUrlCallback(i)
    \/ \E r \in routeComponentMap : LoaderResolve(r)

SpecUrl == Init /\ [][NextUrl]_vars

\* ------------------------------------------------------------ properties
SaveData == connection # << >> /\ connection[1].saveData

\* The prefetchRoute calls of the step just taken.
Calls == {last.calls[i] : i \in DOMAIN last.calls}

\* The routes of a sequence of prefetchRoute calls.
RoutesOf(calls) == [i \in DOMAIN calls |-> calls[i].route]

IsPrefix(a, b) == Len(a) <= Len(b) /\ SubSeq(b, 1, Len(a)) = a

\* The idle callbacks () => prefetchRoute(route) for routes, in order.
RouteCallbacks(routes) ==
    [k \in 1..Len(routes) |->
        [kind |-> "route", route |-> routes[k], hasStaffRole |-> FALSE,
         returnUrl |-> << >>, timeout |-> 2000]]

\* The idle callbacks a step posted.
Posted == SubSeq(idleCallbacks', Len(idleCallbacks) + 1, Len(idleCallbacks'))

\* C1. Idempotence of prefetchRoute: while no loader has rejected, a call of
\* prefetchRoute(route) invokes the loader only if it is the first call for
\* that route, so two calls in succession, the second before or after the
\* first load resolved, make exactly one invocation.
C1_ExactlyOneInvocation ==
    failures = 0 =>
        \A c \in Calls :
            c.outcome = "load" => inFlight[c.route] = 1

\* C2. Dedup across waves: with only the waves and bursts of usePrefetchRoutes
\* scheduled and no loader rejected, whatever the order of timers, idle
\* callbacks and loader settlements, no route's loader has been invoked more
\* than once in total.
C2_AtMostOnceInTotal ==
    (failures = 0 /\ mounts = 0) =>
        \A r \in routeComponentMap : loaderInvocations[r] <= 1

\* C3 as claimed. Network gate: in no step taken while the environment
\* reports saveData=true is a loader invoked.
C3_NoLoadWhileSaveData ==
    [][SaveData => loaderInvocations' = loaderInvocations]_vars

\* C3 as amended. While saveData=true an evaluation, a mount and a firing
\* timer post no idle callback, set no timer and invoke no loader; a loader
\* is invoked only by an idle callback that was posted before.
C3_GateClosedStartsNothing ==
    [][SaveData =>
          /\ last'.what \in {"evaluate", "mount", "timer"} =>
                /\ idleCallbacks' = idleCallbacks
                /\ Len(timers') <= Len(timers)
                /\ loaderInvocations' = loaderInvocations
          /\ loaderInvocations' # loaderInvocations =>
                /\ last'.what = "idle"
                /\ Len(idleCallbacks') < Len(idleCallbacks)]_vars

\* An evaluation with authInitialized and isAuthenticated, under saveData.
C3_Witness ==
    /\ SaveData
    /\ last.what = "evaluate"
    /\ last.arg.authInitialized
    /\ last.arg.isAuthenticated

\* C4. Unknown route: a call of prefetchRoute with a path that is no key of
\* the Route Table warns, invokes no loader and leaves the Loaded Set as it
\* was.
C4_UnknownRoute ==
    [][\A i \in DOMAIN last'.calls :
          last'.calls[i].route \notin routeComponentMap =>
              /\ last'.calls[i].outcome = "warn"
              /\ prefetchedRoutes' = prefetchedRoutes
              /\ Len(last'.calls) = 1 =>
                    /\ loaderInvocations' = loaderInvocations
                    /\ inFlight' = inFlight]_vars

\* prefetchRoute was called with a path that is no key of the Route Table.
C4_Witness == \E c \in Calls : c.route \notin routeComponentMap

\* C5 as claimed. Login transition: an evaluation that passes the gate with
\* isAuthenticated and a staff user, after an evaluation that had
\* isAuthenticated=false, posts the login-transition burst.
C5_BurstAfterUnauthenticatedEvaluation ==
    [][(/\ last'.what = "evaluate"
        /\ evals' = evals + 1
        /\ evals >= 1
        /\ ~store.isAuthenticated
        /\ store'.isAuthenticated
        /\ store'.authInitialized
        /\ hasStaffRole(store'.user)
        /\ shouldPrefetch)
       => \E i \in DOMAIN Posted :
              Posted[i].kind = "login" /\ Posted[i].hasStaffRole]_vars

\* C5 as amended. An evaluation that passes the gate with isAuthenticated
\* and a staff user while Previous Auth State is false posts the burst,
\* wherever the location is; the burst, when it runs, calls prefetchRoute
\* for /cart, /wishlist, /profile and sets a 1000ms timer for the seven
\* admin routes; that timer, firing with the gate open, posts an idle
\* callback for each of them; and each, when it runs, calls prefetchRoute
\* for its route.
C5_LoginTransition ==
    [][/\ (/\ last'.what = "evaluate"
           /\ evals' = evals + 1
           /\ previousAuthState = <<FALSE>>
           /\ store'.isAuthenticated
           /\ store'.authInitialized
           /\ hasStaffRole(store'.user)
           /\ shouldPrefetch)
          => \E i \in DOMAIN Posted :
                 Posted[i].kind = "login" /\ Posted[i].hasStaffRole
       /\ (last'.what = "idle" /\ last'.arg.kind = "login")
          => /\ RoutesOf(last'.calls) = <<"/cart", "/wishlist", "/profile">>
             /\ last'.arg.hasStaffRole =>
                   timers' = timers
                             \o <<[routes |-> adminRoutes, delay |-> 1000]>>
       /\ (/\ last'.what = "timer"
           /\ last'.arg = [routes |-> adminRoutes, delay |-> 1000]
           /\ shouldPrefetch)
          => Posted = RouteCallbacks(adminRoutes)
       /\ (last'.what = "idle" /\ last'.arg.kind = "route")
          => RoutesOf(last'.calls) = <<last'.arg.route>>]_vars

\* The 1000ms admin timer of a login-transition burst has fired and posted
\* its seven callbacks, away from the admin pages.
C5_Witness ==
    /\ last.what = "timer"
    /\ last.arg = [routes |-> adminRoutes, delay |-> 1000]
    /\ idleCallbacks = RouteCallbacks(adminRoutes)
    /\ ~isOnAdminPage(store.location)

\* returnUrl up to its first ? or #.
Stripped(u) ==
    LET cut == {i \in 1..Len(u) : u[i] \in {"?", "#"}}
    IN  IF cut = {} THEN u
        ELSE SubSeq(u, 1, (CHOOSE i \in cut : \A j \in cut : i <= j) - 1)

Slashes(n) == {i \in 1..Len(n) : n[i] = "/"}

\* What follows the last / of n.
LastSegment(n) ==
    SubSeq(n, (CHOOSE i \in Slashes(n) : \A j \in Slashes(n) : j <= i) + 1,
           Len(n))

\* C6 as claimed. Return-URL parsing: the idle callback of
\* usePrefetchFromReturnUrl calls prefetchRoute for the route of the stripped
\* returnUrl: the one of /cart, /wishlist, /profile, /checkout it starts
\* with, /admin for /admin, /admin/<segment> for /admin/<segment>, and none
\* for any other value.
C6_RouteAsClaimed ==
    (last.what = "idle" /\ last.arg.kind = "returnUrl")
    => LET n == Stripped(last.arg.returnUrl)
       IN  RoutesOf(last.calls) =
               IF StartsWith(n, cCart) THEN <<"/cart">>
               ELSE IF StartsWith(n, cWishlist) THEN <<"/wishlist">>
               ELSE IF StartsWith(n, cProfile) THEN <<"/profile">>
               ELSE IF StartsWith(n, cCheckout) THEN <<"/checkout">>
               ELSE IF n = cAdmin THEN <<"/admin">>
               ELSE IF /\ StartsWith(n, cAdmin \o <<"/">>)
                       /\ Cardinality(Slashes(n)) = 2
                    THEN <<"/admin/" \o Join(LastSegment(n))>>
               ELSE << >>

\* C6 as amended. The same, except that every stripped returnUrl that starts
\* with /admin counts as an admin path: with one segment (/adminx) it yields
\* /admin, with two (/adminx/users) it yields /admin/<second segment>. In
\* particular /admin/users?x=1 yields exactly /admin/users.
C6_RouteAsAmended ==
    (last.what = "idle" /\ last.arg.kind = "returnUrl")
    => LET n == Stripped(last.arg.returnUrl)
       IN  /\ RoutesOf(last.calls) =
                  IF StartsWith(n, cCart) THEN <<"/cart">>
                  ELSE IF StartsWith(n, cWishlist) THEN <<"/wishlist">>
                  ELSE IF StartsWith(n, cProfile) THEN <<"/profile">>
                  ELSE IF StartsWith(n, cCheckout) THEN <<"/checkout">>
                  ELSE IF StartsWith(n, cAdmin) /\ Cardinality(Slashes(n)) = 1
                       THEN <<"/admin">>
                  ELSE IF StartsWith(n, cAdmin) /\ Cardinality(Slashes(n)) = 2
                       THEN <<"/admin/" \o Join(LastSegment(n))>>
                  ELSE << >>
           /\ last.arg.returnUrl = cAdmin \o cUsers \o cQuery
              => RoutesOf(last.calls) = <<"/admin/users">>

\* The callback ran for returnUrl=/admin/users?x=1 and invoked a loader.
C6_Witness ==
    /\ last.what = "idle"
    /\ last.arg.kind = "returnUrl"
    /\ last.arg.returnUrl = cAdmin \o cUsers \o cQuery
    /\ last.calls = <<[route |-> "/admin/users", outcome |-> "load"]>>

\* C7. Loaded Set dedup: a call of prefetchRoute for a route in the Loaded
\* Set returns at once, invoking no loader and changing nothing, and no step
\* takes a route out of the Loaded Set.
C7_LoadedSetDedup ==
    [][/\ prefetchedRoutes \subseteq prefetchedRoutes'
       /\ \A i \in DOMAIN last'.calls :
             last'.calls[i].route \in prefetchedRoutes =>
                 /\ last'.calls[i].outcome = "return"
                 /\ Len(last'.calls) = 1 =>
                       UNCHANGED <<prefetchedRoutes, inFlight,
                                   loaderInvocations, timers,
                                   previousAuthState>>]_vars

\* prefetchRoute was called for a route in the Loaded Set.
C7_Witness == \E c \in Calls : c.route \in prefetchedRoutes

\* C8. Loader rejection: the step in which a loader rejects leaves the
\* Loaded Set as it was, invokes no loader and schedules nothing; and every
\* call of prefetchRoute for a route of the Route Table that is not in the
\* Loaded Set, a route whose load failed included, invokes the loader.
C8_LoaderRejection ==
    [][/\ failures' = failures + 1 =>
             UNCHANGED <<prefetchedRoutes, loaderInvocations, timers,
                         idleCallbacks, previousAuthState>>
       /\ \A i \in DOMAIN last'.calls :
             last'.calls[i].route \in routeComponentMap \ prefetchedRoutes =>
                 /\ last'.calls[i].outcome = "load"
                 /\ loaderInvocations'[last'.calls[i].route]
                        > loaderInvocations[last'.calls[i].route]]_vars

\* A loader rejected, and a later call invoked the same loader again.
C8_Witness ==
    /\ failures = 1
    /\ \E c \in Calls :
          /\ c.outcome = "load"
          /\ loaderInvocations[c.route] = 2
          /\ inFlight[c.route] = 1
          /\ c.route \notin prefetchedRoutes

\* C9. Evaluation gate: an evaluation with authInitialized=false, or with
\* the network gate closed, sets no timer, posts no idle callback, invokes no
\* loader and leaves the Loaded Set and Previous Auth State as they were.
C9_EvaluationGate ==
    [][(/\ last'.what = "evaluate"
        /\ evals' = evals + 1
        /\ ~store'.authInitialized \/ ~shouldPrefetch)
       => UNCHANGED <<timers, idleCallbacks, inFlight, loaderInvocations,
                      prefetchedRoutes, previousAuthState>>]_vars

\* An evaluation with the gate open and authInitialized=false.
C9_Witness ==
    /\ last.what = "evaluate"
    /\ ~last.arg.authInitialized
    /\ last.arg.isAuthenticated
    /\ shouldPrefetch

\* C10. No cancellation: only its firing removes a timer and only its run
\* removes an idle callback, so an evaluation after a logout revokes
\* neither; a timer that fires with the gate open posts an idle callback for
\* each route of its wave, whatever the authentication state then is; and
\* each callback, when it runs, calls prefetchRoute for its route.
C10_NoCancellation ==
    [][/\ last'.what # "timer" => IsPrefix(timers, timers')
       /\ last'.what # "idle" => IsPrefix(idleCallbacks, idleCallbacks')
       /\ last'.what = "timer" =>
             /\ \E i \in DOMAIN timers :
                   timers[i] = last'.arg /\ timers' = Remove(timers, i)
             /\ shouldPrefetch => Posted = RouteCallbacks(last'.arg.routes)
       /\ (last'.what = "idle" /\ last'.arg.kind = "route")
          => RoutesOf(last'.calls) = <<last'.arg.route>>]_vars

\* After a logout, the callback of the 3000ms wave of the authenticated
\* evaluation ran for /checkout and invoked its loader.
C10_Witness ==
    /\ ~store.isAuthenticated
    /\ last.what = "idle"
    /\ last.arg.kind = "route"
    /\ last.arg.route = "/checkout"
    /\ last.calls = <<[route |-> "/checkout", outcome |-> "load"]>>

\* Nothing is pending: no timer, no idle callback, no load in flight.
Settled ==
    /\ timers = << >>
    /\ idleCallbacks = << >>
    /\ \A r \in routeComponentMap : inFlight[r] = 0

Range(seq) == {seq[i] : i \in DOMAIN seq}

\* The routes of the waves and of the admin-page burst that an evaluation of
\* s schedules when it passes the gate with an empty Loaded Set.
ScheduledRoutes(s) ==
    LET waves == Waves(s.isAuthenticated, hasStaffRole(s.user))
    IN  UNION {Range(waves[i].routes) : i \in DOMAIN waves}
        \cup (IF isOnAdminPage(s.location) /\ hasStaffRole(s.user)
              THEN Range(adminRoutes) ELSE {})

GatePassingEvaluation ==
    /\ last'.what = "evaluate"
    /\ evals' = evals + 1
    /\ store'.authInitialized
    /\ shouldPrefetch

\* The timers a step set.
TimersSet == SubSeq(timers', Len(timers) + 1, Len(timers'))

\* The roles of the user intersect {admin, marketer, consultant}; an absent
\* user and absent roles have no role.
IsStaff(user) ==
    /\ user # << >>
    /\ user[1].roles # << >>
    /\ Range(user[1].roles[1]) \cap {"admin", "marketer", "consultant"} # {}

\* C12. Staged waves by auth state: a gate-passing evaluation keeps the
\* timers already set and sets exactly these: unauthenticated,
\* {/login,/register}@0, {/catalog,/products}@1000, {/privacy-policy}@5000;
\* authenticated, {/catalog,/cart,/wishlist,/products}@0,
\* {/profile,/checkout}@3000, {/privacy-policy}@5000 and, if and only if the
\* user is staff, the seven admin routes @7000.
C12_StagedWaves ==
    [][GatePassingEvaluation =>
          /\ IsPrefix(timers, timers')
          /\ TimersSet =
                IF ~store'.isAuthenticated
                THEN << [routes |-> <<"/login", "/register">>, delay |-> 0],
                        [routes |-> <<"/catalog", "/products">>,
                         delay |-> 1000],
                        [routes |-> <<"/privacy-policy">>, delay |-> 5000] >>
                ELSE << [routes |-> <<"/catalog", "/cart", "/wishlist",
                                      "/products">>, delay |-> 0],
                        [routes |-> <<"/profile", "/checkout">>,
                         delay |-> 3000],
                        [routes |-> <<"/privacy-policy">>, delay |-> 5000] >>
                     \o (IF IsStaff(store'.user)
                         THEN << [routes |-> <<"/admin", "/admin/products",
                                               "/admin/categories",
                                               "/admin/orders",
                                               "/admin/promocodes",
                                               "/admin/users",
                                               "/admin/support">>,
                                  delay |-> 7000] >>
                         ELSE << >>)]_vars

\* An authenticated evaluation of a user without roles has passed the gate
\* and set three waves, the last one at 5000ms.
C12_Witness ==
    /\ last.what = "evaluate"
    /\ last.arg.authInitialized
    /\ last.arg.isAuthenticated
    /\ last.arg.user # << >>
    /\ last.arg.user[1].roles = << >>
    /\ Len(timers) = 3
    /\ timers[3].delay = 5000

\* C13. Admin-page burst: a gate-passing evaluation posts the idle callback
\* of the admin-page burst, once, if and only if the location starts with
\* /admin, the user is staff and /admin is not in the Loaded Set, whatever
\* other admin routes are loaded; the callback, when it runs, calls
\* prefetchRoute for the seven admin routes and sets no timer.
C13_AdminPageBurst ==
    [][/\ GatePassingEvaluation =>
             /\ Cardinality({i \in DOMAIN Posted : Posted[i].kind = "admin"})
                    <= 1
             /\ (\E i \in DOMAIN Posted : Posted[i].kind = "admin")
                <=> /\ StartsWith(store'.location, cAdmin)
                    /\ IsStaff(store'.user)
                    /\ "/admin" \notin prefetchedRoutes
       /\ (last'.what = "idle" /\ last'.arg.kind = "admin") =>
             /\ RoutesOf(last'.calls) =
                    <<"/admin", "/admin/products", "/admin/categories",
                      "/admin/orders", "/admin/promocodes", "/admin/users",
                      "/admin/support">>
             /\ timers' = timers]_vars

\* A staff user on an admin page was evaluated with /admin loaded and another
\* admin route not loaded: no burst is pending.
C13_Witness ==
    /\ last.what = "evaluate"
    /\ last.arg.authInitialized
    /\ shouldPrefetch
    /\ isOnAdminPage(last.arg.location)
    /\ hasStaffRole(last.arg.user)
    /\ "/admin" \in prefetchedRoutes
    /\ Range(adminRoutes) \ prefetchedRoutes # {}
    /\ \A i \in DOMAIN idleCallbacks : idleCallbacks[i].kind # "admin"

\* The step posted the idle callback of the login-transition burst.
LoginBurstPosted == \E i \in DOMAIN Posted : Posted[i].kind = "login"

\* C14 as claimed. Previous Auth State tracking: at the end of every
\* evaluation Previous Auth State is that evaluation's isAuthenticated, and
\* an evaluation posts the login-transition burst exactly when the
\* evaluation before it had isAuthenticated=false and it has
\* isAuthenticated=true.
C14_TracksEveryEvaluation ==
    [][(last'.what = "evaluate" /\ evals' = evals + 1) =>
          /\ previousAuthState' = <<store'.isAuthenticated>>
          /\ LoginBurstPosted
             <=> (evals >= 1 /\ ~store.isAuthenticated
                  /\ store'.isAuthenticated)]_vars

\* C14 as amended. At the end of every evaluation that passes the gate
\* Previous Auth State is that evaluation's isAuthenticated; an evaluation
\* the gate stops, and every other step, leaves it as it was, and it is
\* unset before the first evaluation. An evaluation posts the
\* login-transition burst exactly when it passes the gate with
\* isAuthenticated=true while Previous Auth State is false: never while it
\* is unset, and never while it is true.
C14_TracksGatePassingEvaluations ==
    [][/\ evals = 0 => previousAuthState = << >>
       /\ IF last'.what = "evaluate" /\ evals' = evals + 1
          THEN IF store'.authInitialized /\ shouldPrefetch
               THEN /\ previousAuthState' = <<store'.isAuthenticated>>
                    /\ LoginBurstPosted
                       <=> (previousAuthState = <<FALSE>>
                            /\ store'.isAuthenticated)
               ELSE /\ previousAuthState' = previousAuthState
                    /\ ~LoginBurstPosted
          ELSE /\ previousAuthState' = previousAuthState
               /\ ~LoginBurstPosted]_vars

\* Two authenticated evaluations have passed the gate, each setting the
\* 3000ms wave, the second after a change of location: no burst is posted.
C14_Witness ==
    /\ last.what = "evaluate"
    /\ evals = 2
    /\ previousAuthState = <<TRUE>>
    /\ last.arg.isAuthenticated
    /\ isOnAdminPage(last.arg.location)
    /\ Cardinality({i \in DOMAIN timers : timers[i].delay = 3000}) = 2
    /\ \A i \in DOMAIN idleCallbacks : idleCallbacks[i].kind # "login"

\* C15. Return-URL prefetcher: a mount of usePrefetchFromReturnUrl posts one
\* idle callback if the network gate is open and a non-empty returnUrl
\* parameter is present, and none otherwise; the callback, when it runs,
\* makes at most one prefetchRoute call; and neither step sets a timer or
\* touches Previous Auth State, the mount leaving the Loaded Set and the
\* loads as they were.
C15_ReturnUrlPrefetcher ==
    [][/\ last'.what = "mount" =>
             /\ IsPrefix(idleCallbacks, idleCallbacks')
             /\ Len(Posted) <= 1
             /\ Len(Posted) = 1
                <=> (shouldPrefetch /\ last'.arg # << >>
                     /\ last'.arg[1] # << >>)
             /\ \A i \in DOMAIN Posted :
                   /\ Posted[i].kind = "returnUrl"
                   /\ Posted[i].returnUrl = last'.arg[1]
             /\ UNCHANGED <<timers, previousAuthState, prefetchedRoutes,
                            inFlight, loaderInvocations>>
       /\ (last'.what = "idle" /\ last'.arg.kind = "returnUrl") =>
             /\ Len(last'.calls) <= 1
             /\ Len(idleCallbacks') = Len(idleCallbacks) - 1
             /\ UNCHANGED <<timers, previousAuthState, prefetchedRoutes>>]_vars

\* After an authenticated evaluation, the callback of a mount has run and
\* made its one call.
C15_Witness ==
    /\ last.what = "idle"
    /\ last.arg.kind = "returnUrl"
    /\ Len(last.calls) = 1
    /\ previousAuthState = <<TRUE>>
    /\ mounts = 1

\* C16. Loaded Set soundness: every member of the Loaded Set is a key of the
\* Route Table with an invocation of its loader that has settled; a route
\* enters the Loaded Set only in the step in which one of its loads in
\* flight resolves; and the step in which a load rejects adds nothing. So a
\* route whose loads have all failed or are still in flight is not in it.
C16_LoadedSetSoundness ==
    [][/\ prefetchedRoutes' \subseteq routeComponentMap
       /\ \A r \in prefetchedRoutes' :
             loaderInvocations'[r] > inFlight'[r]
       /\ \A r \in prefetchedRoutes' \ prefetchedRoutes :
             /\ inFlight[r] > 0
             /\ inFlight'[r] = inFlight[r] - 1
             /\ failures' = failures
             /\ prefetchedRoutes' = prefetchedRoutes \cup {r}
       /\ failures' # failures => prefetchedRoutes' = prefetchedRoutes]_vars

\* A route's only load has failed and it is not in the Loaded Set, which
\* holds other routes, while a load of another route is in flight.
C16_Witness ==
    /\ failures = 1
    /\ prefetchedRoutes # {}
    /\ \E r \in routeComponentMap \ prefetchedRoutes :
          loaderInvocations[r] = 1 /\ inFlight[r] = 0
    /\ \E r \in routeComponentMap \ prefetchedRoutes : inFlight[r] = 1

\* The admin routes: /admin and /admin/*.
AdminKeys ==
    {"/admin", "/admin/users", "/admin/products", "/admin/categories",
     "/admin/promocodes", "/admin/orders", "/admin/support"}

\* Whether something of the scheduler that requests an admin route is
\* pending in the timers and callbacks ts and cbs.
AdminPending(ts, cbs) ==
    \/ \E i \in DOMAIN ts : Range(ts[i].routes) \cap AdminKeys # {}
    \/ \E i \in DOMAIN cbs :
          \/ cbs[i].kind = "route" /\ cbs[i].route \in AdminKeys
          \/ cbs[i].kind = "admin"
          \/ cbs[i].kind = "login" /\ cbs[i].hasStaffRole

\* An admin route's loader may be or has been invoked.
AdminRequested ==
    \/ AdminPending(timers, idleCallbacks)
    \/ \E r \in AdminKeys : loaderInvocations[r] > 0

\* C17. Staff-only admin prefetch in the scheduler: an evaluation of a user
\* without a staff role sets no timer holding an admin route and posts no
\* admin-page burst and no login-transition burst that goes on to the admin
\* routes; a login-transition burst without the staff flag sets no timer and
\* calls no admin route; and, usePrefetchFromReturnUrl aside, the first
\* pending request of an admin route appears in a gate-passing evaluation of
\* a staff user, so that after evaluations of non-staff users only no admin
\* route's loader has been invoked.
C17_StaffOnlyAdminPrefetch ==
    [][/\ (last'.what = "evaluate" /\ ~IsStaff(store'.user)) =>
             ~AdminPending(TimersSet, Posted)
       /\ (/\ last'.what = "idle"
           /\ last'.arg.kind = "login"
           /\ ~last'.arg.hasStaffRole)
          => /\ timers' = timers
             /\ Range(RoutesOf(last'.calls)) \cap AdminKeys = {}
       /\ (mounts' = 0 /\ ~AdminRequested /\ AdminRequested') =>
             (GatePassingEvaluation /\ IsStaff(store'.user))
       /\ (mounts' = 0 /\ evals' <= 1 /\ ~IsStaff(store'.user)) =>
             ~AdminRequested']_vars

\* The login-transition burst of a user without a staff role has run on an
\* admin page, and no admin route is or was requested.
C17_Witness ==
    /\ last.what = "idle"
    /\ last.arg.kind = "login"
    /\ ~last.arg.hasStaffRole
    /\ isOnAdminPage(store.location)
    /\ store.user # << >>
    /\ ~AdminRequested

\* C18. Gate re-check at timer firing: a timer of prefetchWithDelay that
\* fires with the network gate closed leaves the queue, posts no idle
\* callback, invokes no loader and sets no timer, and one that fires with the
\* gate open posts a callback per route; the idle callbacks of the
\* login-transition burst and of the admin-page burst call prefetchRoute on
\* their routes whatever the gate is, and those calls invoke the loaders of
\* the routes not yet loaded.
C18_GateRecheckAtFiring ==
    [][/\ last'.what = "timer" =>
             /\ \E i \in DOMAIN timers :
                   timers[i] = last'.arg /\ timers' = Remove(timers, i)
             /\ loaderInvocations' = loaderInvocations
             /\ IF shouldPrefetch
                THEN Posted = RouteCallbacks(last'.arg.routes)
                ELSE idleCallbacks' = idleCallbacks
       /\ (last'.what = "idle" /\ last'.arg.kind \in {"login", "admin"}) =>
             /\ RoutesOf(last'.calls) =
                    IF last'.arg.kind = "login"
                    THEN <<"/cart", "/wishlist", "/profile">>
                    ELSE adminRoutes
             /\ \A r \in Range(RoutesOf(last'.calls)) \ prefetchedRoutes :
                   loaderInvocations'[r] = loaderInvocations[r] + 1]_vars

\* A timer has fired after the connection closed the gate: its wave is
\* gone and no callback is pending.
C18_Witness ==
    /\ last.what = "timer"
    /\ ~shouldPrefetch
    /\ netChanges = 1
    /\ idleCallbacks = << >>
    /\ \A i \in DOMAIN timers : timers[i] # last.arg

\* The classes of gate-passing evaluations, by the waves they set.
WaveClasses == {"unauthenticated", "authenticated", "staff"}

WaveClass(s) ==
    IF ~s.isAuthenticated THEN "unauthenticated"
    ELSE IF hasStaffRole(s.user) THEN "staff"
    ELSE "authenticated"

\* The routes of the waves of an evaluation of class k.
WaveRoutes(k) ==
    LET waves == Waves(k # "unauthenticated", k = "staff")
    IN  UNION {Range(waves[i].routes) : i \in DOMAIN waves}

\* C19. Eventual loading: with a connection that keeps the gate open, timers
\* and idle callbacks that are eventually run and loaders that all succeed,
\* a gate-passing evaluation leads to a state with every route of its waves
\* in the Loaded Set and no timer, callback or load pending.
C19_EventualLoading ==
    \A k \in WaveClasses :
        (/\ last.what = "evaluate"
         /\ last.arg.authInitialized
         /\ shouldPrefetch
         /\ WaveClass(last.arg) = k)
        ~> (Settled /\ WaveRoutes(k) \subseteq prefetchedRoutes)

\* After an unauthenticated and then an authenticated evaluation everything
\* has settled, with the routes of both in the Loaded Set.
C19_Witness ==
    /\ Settled
    /\ evals = 2
    /\ previousAuthState = <<TRUE>>
    /\ WaveRoutes("unauthenticated") \cup WaveRoutes("authenticated")
           \subseteq prefetchedRoutes
====
